---- MODULE Spec2Model ----
(***************************************************************************)
(* Google Maps Platform tool wrappers: fourteen executors, each of which   *)
(* destructures an arguments object, builds a query string, issues one     *)
(* HTTP GET with fetch, and returns the parsed JSON body or { error }.     *)
(*                                                                         *)
(* Representation.  A JavaScript string is a sequence of chunks: a chunk   *)
(* is either one character that the query encoding treats specially        *)
(* (",", "&", "=", "#", " ", "+", "|", "%") or a non-empty run of          *)
(* characters it leaves alone.  Text(s) is the string itself.  A JS value  *)
(* is a record [t, v] with t its typeof (or "null").  A JSON value is a    *)
(* record [t, v] with t in "obj", "arr", "str", "num", "null"; an object   *)
(* keeps its members as a sequence of <<key, value>> in insertion order.   *)
(***************************************************************************)
EXTENDS Integers, Sequences, FiniteSets

VARIABLES env, inv, calls, heap

vars == <<env, inv, calls, heap>>

(***************************************************************************)
(* Bounds of the model                                                     *)
(***************************************************************************)
\* at most this many optional properties are supplied in one arguments object
MaxSupplied == 1
\* the number of invocations that may be in flight together
NumCallers == 2

(***************************************************************************)
(* JavaScript values                                                       *)
(***************************************************************************)
Undefined == [t |-> "undefined", v |-> <<>>]
Null == [t |-> "null", v |-> <<>>]
Str(s) == [t |-> "string", v |-> s]
Num(n) == [t |-> "number", v |-> n]
Bool(b) == [t |-> "boolean", v |-> b]

RECURSIVE Text(_)
Text(s) == IF s = <<>> THEN "" ELSE Head(s) \o Text(Tail(s))

Digit(d) == CASE d = 0 -> "0" [] d = 1 -> "1" [] d = 2 -> "2" [] d = 3 -> "3"
              [] d = 4 -> "4" [] d = 5 -> "5" [] d = 6 -> "6" [] d = 7 -> "7"
              [] d = 8 -> "8" [] d = 9 -> "9"

\* Number.prototype.toString / ToString of a non-negative integer
RECURSIVE Decimal(_)
Decimal(n) == IF n < 10 THEN <<Digit(n)>> ELSE Append(Decimal(n \div 10), Digit(n % 10))

\* ToString: the conversion URLSearchParams.append and template literals
\* apply to a value
ToString(x) ==
  CASE x.t = "string" -> x.v
    [] x.t = "number" -> Decimal(x.v)
    [] x.t = "boolean" -> IF x.v THEN <<"true">> ELSE <<"false">>
    [] x.t = "null" -> <<"null">>
    [] x.t = "undefined" -> <<"undefined">>

\* ToBoolean: the test of  if (x)
TruthyNotUndefined(x) == x.t # "undefined"
TruthyUnlessNullish(x) == x.t \notin {"undefined", "null"}
Truthy(x) ==
  CASE x.t = "string" -> Text(x.v) # ""
    [] x.t = "number" -> x.v # 0
    [] x.t = "boolean" -> x.v
    [] x.t = "null" -> FALSE
    [] x.t = "undefined" -> FALSE

\* x.toString() is a property read on x: it throws for undefined and null
CanReadProperty(x) == x.t \notin {"undefined", "null"}

\* an arguments object: v maps the supplied property names to their values
Obj(f) == [t |-> "object", v |-> f]
Get(a, p) == IF p \in DOMAIN a.v THEN a.v[p] ELSE Undefined

\* a destructuring default applies when the property is undefined
DefaultAlways(x, d) == d
Default(x, d) == IF x.t = "undefined" THEN d ELSE x

(***************************************************************************)
(* JSON values, JSON.stringify                                             *)
(***************************************************************************)
JObj(m) == [t |-> "obj", v |-> m]
JArr(a) == [t |-> "arr", v |-> a]
JStr(s) == [t |-> "str", v |-> s]
JNum(n) == [t |-> "num", v |-> n]
JNull == [t |-> "null", v |-> <<>>]

RECURSIVE Stringify(_)
RECURSIVE StringifyMembers(_)
RECURSIVE StringifyItems(_)
\* the strings of the model hold no character that JSON escapes
Stringify(j) ==
  CASE j.t = "obj" -> "{" \o StringifyMembers(j.v) \o "}"
    [] j.t = "arr" -> "[" \o StringifyItems(j.v) \o "]"
    [] j.t = "str" -> "\"" \o j.v \o "\""
    [] j.t = "num" -> Text(Decimal(j.v))
    [] j.t = "null" -> "null"
StringifyMembers(m) ==
  IF m = <<>> THEN ""
  ELSE "\"" \o Head(m)[1] \o "\":" \o Stringify(Head(m)[2])
       \o (IF Len(m) > 1 THEN "," ELSE "") \o StringifyMembers(Tail(m))
StringifyItems(a) ==
  IF a = <<>> THEN ""
  ELSE Stringify(Head(a)) \o (IF Len(a) > 1 THEN "," ELSE "") \o StringifyItems(Tail(a))

HasKey(j, k) == j.t = "obj" /\ \E i \in 1..Len(j.v) : j.v[i][1] = k

(***************************************************************************)
(* URLSearchParams: application/x-www-form-urlencoded serialisation        *)
(***************************************************************************)
\* percent-encoding of one chunk of a name or value
EncodeChunkVerbatim(c) == c
EncodeChunk(c) ==
  CASE c = "," -> "%2C" [] c = "&" -> "%26" [] c = "=" -> "%3D"
    [] c = "#" -> "%23" [] c = "|" -> "%7C" [] c = "%" -> "%25"
    [] c = "+" -> "%2B" [] c = " " -> "+"
    [] OTHER -> c

Encode(s) == [i \in 1..Len(s) |-> EncodeChunk(s[i])]

\* url.searchParams.append(name, value)
append(sp, name, value) == Append(sp, <<name, ToString(value)>>)

\* URLSearchParams.prototype.toString
RECURSIVE Serialize(_)
Serialize(sp) ==
  IF sp = <<>> THEN <<>>
  ELSE <<Head(sp)[1], "=">> \o Encode(Head(sp)[2])
       \o (IF Len(sp) > 1 THEN <<"&">> ELSE <<>>) \o Serialize(Tail(sp))

(***************************************************************************)
(* The fourteen tools.  Each record transcribes one executeFunction:       *)
(*   required  the descriptor's required list                             *)
(*   params    the destructured properties, in order, with the type the    *)
(*             JSDoc and the descriptor declare                            *)
(*   defaults  the destructuring defaults                                  *)
(*   steps     the statements that build the query, in order:              *)
(*               <<"append", n, p>>    append(n, p)                        *)
(*               <<"if", n, p>>        if (p) append(n, p)                 *)
(*               <<"toString", n, p>>  append(n, p.toString())             *)
(*               <<"key", "key", "">>  append('key', apiKey)               *)
(*               <<"ifkey", "key", "">> if (apiKey) append('key', apiKey)  *)
(*   fetchUrl  how the string handed to fetch is made:                     *)
(*               "href"   url.toString()                                   *)
(*               "params" `${url}?${params.toString()}`                    *)
(*               "rawkey" `${url.toString()}&key=${apiKey}`                *)
(*   header    the single request header's name                            *)
(*   prefix    the text that precedes the message in { error }             *)
(***************************************************************************)
distance_matrix ==
  [name |-> "distance_matrix",
   required |-> <<"origins", "destinations">>,
   baseUrl |-> "https://maps.googleapis.com/maps/api/distancematrix/json",
   params |-> << <<"origins", "string">>, <<"destinations", "string">>,
                 <<"mode", "string">>, <<"units", "string">>,
                 <<"language", "string">>, <<"departure_time", "number">>,
                 <<"avoid", "string">>, <<"traffic_model", "string">> >>,
   defaults |-> [mode |-> Str(<<"driving">>), units |-> Str(<<"metric">>),
                 language |-> Str(<<"en">>), traffic_model |-> Str(<<"best_guess">>)],
   steps |-> << <<"append", "origins", "origins">>,
                <<"append", "destinations", "destinations">>,
                <<"append", "mode", "mode">>,
                <<"append", "units", "units">>,
                <<"append", "language", "language">>,
                <<"if", "departure_time", "departure_time">>,
                <<"if", "avoid", "avoid">>,
                <<"if", "traffic_model", "traffic_model">>,
                <<"key", "key", "">> >>,
   fetchUrl |-> "href", header |-> "Accept",
   prefix |-> "An error occurred while fetching the distance matrix: "]

autocomplete_place ==
  [name |-> "autocomplete_place",
   required |-> <<"input">>,
   baseUrl |-> "https://www.googleapis.com/maps/api/place/autocomplete/json",
   params |-> << <<"input", "string">>, <<"sessiontoken", "string">>,
                 <<"components", "string">>, <<"strictbounds", "boolean">>,
                 <<"offset", "number">>, <<"origin", "string">>,
                 <<"location", "string">>, <<"radius", "number">>,
                 <<"types", "string">>, <<"language", "string">>,
                 <<"region", "string">> >>,
   defaults |-> [language |-> Str(<<"en">>), region |-> Str(<<"en">>)],
   steps |-> << <<"append", "input", "input">>,
                <<"if", "sessiontoken", "sessiontoken">>,
                <<"if", "components", "components">>,
                <<"if", "strictbounds", "strictbounds">>,
                <<"if", "offset", "offset">>,
                <<"if", "origin", "origin">>,
                <<"if", "location", "location">>,
                <<"if", "radius", "radius">>,
                <<"if", "types", "types">>,
                <<"if", "language", "language">>,
                <<"if", "region", "region">>,
                <<"key", "key", "">> >>,
   fetchUrl |-> "href", header |-> "Accept",
   prefix |-> "An error occurred while performing autocomplete search: "]

query_autocomplete ==
  [name |-> "query_autocomplete",
   required |-> <<"input">>,
   baseUrl |-> "https://www.googleapis.com/maps/api/place/queryautocomplete/json",
   params |-> << <<"input", "string">>, <<"offset", "number">>,
                 <<"location", "string">>, <<"radius", "number">>,
                 <<"language", "string">> >>,
   defaults |-> [language |-> Str(<<"en">>)],
   steps |-> << <<"append", "input", "input">>,
                <<"if", "offset", "offset">>,
                <<"if", "location", "location">>,
                <<"if", "radius", "radius">>,
                <<"append", "language", "language">>,
                <<"key", "key", "">> >>,
   fetchUrl |-> "href", header |-> "Accept",
   prefix |-> "An error occurred while performing query autocomplete: "]

get_place_details ==
  [name |-> "get_place_details",
   required |-> <<"place_id">>,
   baseUrl |-> "https://www.googleapis.com/maps/api/place/details/json",
   params |-> << <<"place_id", "string">>, <<"fields", "string">>,
                 <<"sessiontoken", "string">>, <<"language", "string">>,
                 <<"region", "string">> >>,
   defaults |-> [language |-> Str(<<"en">>), region |-> Str(<<"en">>)],
   steps |-> << <<"append", "place_id", "place_id">>,
                <<"if", "fields", "fields">>,
                <<"if", "sessiontoken", "sessiontoken">>,
                <<"append", "language", "language">>,
                <<"append", "region", "region">>,
                <<"key", "key", "">> >>,
   fetchUrl |-> "href", header |-> "Accept",
   prefix |-> "An error occurred while fetching place details: "]

nearby_search ==
  [name |-> "nearby_search",
   required |-> <<"location">>,
   baseUrl |-> "https://maps.googleapis.com/maps/api/place/nearbysearch/json",
   params |-> << <<"location", "string">>, <<"keyword", "string">>,
                 <<"name", "string">>, <<"radius", "number">>,
                 <<"type", "string">>, <<"language", "string">> >>,
   defaults |-> [language |-> Str(<<"en">>)],
   steps |-> << <<"append", "location", "location">>,
                <<"if", "keyword", "keyword">>,
                <<"if", "name", "name">>,
                <<"if", "radius", "radius">>,
                <<"if", "type", "type">>,
                <<"append", "language", "language">>,
                <<"key", "key", "">> >>,
   fetchUrl |-> "href", header |-> "Accept",
   prefix |-> "An error occurred while performing nearby search: "]

text_search ==
  [name |-> "text_search",
   required |-> <<"query">>,
   baseUrl |-> "https://maps.googleapis.com/maps/api/place/textsearch/json",
   params |-> << <<"query", "string">>, <<"location", "string">>,
                 <<"maxprice", "string">>, <<"minprice", "string">>,
                 <<"opennow", "boolean">>, <<"pagetoken", "string">>,
                 <<"radius", "number">>, <<"type", "string">>,
                 <<"language", "string">>, <<"region", "string">> >>,
   defaults |-> [language |-> Str(<<"en">>), region |-> Str(<<"en">>)],
   steps |-> << <<"append", "query", "query">>,
                <<"if", "location", "location">>,
                <<"if", "maxprice", "maxprice">>,
                <<"if", "minprice", "minprice">>,
                <<"if", "opennow", "opennow">>,
                <<"if", "pagetoken", "pagetoken">>,
                <<"if", "radius", "radius">>,
                <<"if", "type", "type">>,
                <<"if", "language", "language">>,
                <<"if", "region", "region">>,
                <<"key", "key", "">> >>,
   fetchUrl |-> "params", header |-> "Accept",
   prefix |-> "An error occurred while performing the text search: "]

find_place_from_text ==
  [name |-> "find_place_from_text",
   required |-> <<"input", "inputtype">>,
   baseUrl |-> "https://www.googleapis.com/maps/api/place/findplacefromtext/json",
   params |-> << <<"input", "string">>, <<"inputtype", "string">>,
                 <<"fields", "string">>, <<"locationbias", "string">>,
                 <<"language", "string">> >>,
   defaults |-> [language |-> Str(<<"en">>)],
   steps |-> << <<"append", "input", "input">>,
                <<"append", "inputtype", "inputtype">>,
                <<"if", "fields", "fields">>,
                <<"if", "locationbias", "locationbias">>,
                <<"append", "language", "language">>,
                <<"key", "key", "">> >>,
   fetchUrl |-> "href", header |-> "Accept",
   prefix |-> "An error occurred while finding place from text: "]

get_time_zone ==
  [name |-> "get_time_zone",
   required |-> <<"location", "timestamp">>,
   baseUrl |-> "https://www.googleapis.com/maps/api/timezone/json",
   params |-> << <<"location", "string">>, <<"timestamp", "number">> >>,
   defaults |-> <<>>,
   steps |-> << <<"append", "location", "location">>,
                <<"toString", "timestamp", "timestamp">>,
                <<"key", "key", "">> >>,
   fetchUrl |-> "href", header |-> "Accept",
   prefix |-> "An error occurred while fetching time zone information: "]

nearest_roadsGuarded ==
  [name |-> "nearest_roads",
   required |-> <<"points">>,
   baseUrl |-> "https://roads.googleapis.com/v1/nearestRoads",
   params |-> << <<"points", "string">> >>,
   defaults |-> <<>>,
   steps |-> << <<"if", "points", "points">>,
                <<"key", "key", "">> >>,
   fetchUrl |-> "href", header |-> "Accept",
   prefix |-> "An error occurred while finding nearest roads: "]
nearest_roads ==
  [name |-> "nearest_roads",
   required |-> <<"points">>,
   baseUrl |-> "https://roads.googleapis.com/v1/nearestRoads",
   params |-> << <<"points", "string">> >>,
   defaults |-> <<>>,
   steps |-> << <<"append", "points", "points">>,
                <<"key", "key", "">> >>,
   fetchUrl |-> "href", header |-> "Accept",
   prefix |-> "An error occurred while finding nearest roads: "]

snap_to_roads ==
  [name |-> "snap_to_roads",
   required |-> <<"path">>,
   baseUrl |-> "https://roads.googleapis.com/v1/snaptoroads",
   params |-> << <<"path", "string">>, <<"interpolate", "boolean">> >>,
   defaults |-> [interpolate |-> Bool(FALSE)],
   steps |-> << <<"append", "path", "path">>,
                <<"toString", "interpolate", "interpolate">>,
                <<"key", "key", "">> >>,
   fetchUrl |-> "href", header |-> "Accept",
   prefix |-> "An error occurred while snapping to roads: "]

forecast_days ==
  [name |-> "forecast_days",
   required |-> <<"latitude", "longitude">>,
   baseUrl |-> "https://weather.googleapis.com/v1/forecast/days:lookup",
   params |-> << <<"latitude", "number">>, <<"longitude", "number">>,
                 <<"pageSize", "number">>, <<"pageToken", "string">>,
                 <<"days", "number">>, <<"languageCode", "string">> >>,
   defaults |-> [pageSize |-> Num(5), days |-> Num(10), languageCode |-> Str(<<"en">>)],
   steps |-> << <<"append", "location.latitude", "latitude">>,
                <<"append", "location.longitude", "longitude">>,
                <<"toString", "pageSize", "pageSize">>,
                <<"if", "pageToken", "pageToken">>,
                <<"toString", "days", "days">>,
                <<"append", "languageCode", "languageCode">> >>,
   fetchUrl |-> "rawkey", header |-> "Content-Type",
   prefix |-> "An error occurred while fetching the weather forecast: "]

forecast_hours ==
  [name |-> "forecast_hours",
   required |-> <<"latitude", "longitude">>,
   baseUrl |-> "https://weather.googleapis.com/v1/forecast/hours:lookup",
   params |-> << <<"latitude", "number">>, <<"longitude", "number">>,
                 <<"unitsSystem", "string">>, <<"pageSize", "number">>,
                 <<"pageToken", "string">>, <<"days", "number">>,
                 <<"languageCode", "string">> >>,
   defaults |-> [unitsSystem |-> Str(<<"METRIC">>), pageSize |-> Num(24),
                 days |-> Num(240), languageCode |-> Str(<<"en">>)],
   steps |-> << <<"append", "location.latitude", "latitude">>,
                <<"append", "location.longitude", "longitude">>,
                <<"append", "unitsSystem", "unitsSystem">>,
                <<"toString", "pageSize", "pageSize">>,
                <<"if", "pageToken", "pageToken">>,
                <<"toString", "days", "days">>,
                <<"append", "languageCode", "languageCode">>,
                <<"ifkey", "key", "">> >>,
   fetchUrl |-> "href", header |-> "Content-Type",
   prefix |-> "An error occurred while fetching the hourly weather forecast: "]

get_hourly_weather ==
  [name |-> "get_hourly_weather",
   required |-> <<"latitude", "longitude">>,
   baseUrl |-> "https://weather.googleapis.com/v1/history/hours:lookup",
   params |-> << <<"latitude", "number">>, <<"longitude", "number">>,
                 <<"unitsSystem", "string">>, <<"pageSize", "number">>,
                 <<"pageToken", "string">>, <<"hours", "number">>,
                 <<"languageCode", "string">> >>,
   defaults |-> [unitsSystem |-> Str(<<"METRIC">>), pageSize |-> Num(24),
                 hours |-> Num(24), languageCode |-> Str(<<"en">>)],
   steps |-> << <<"append", "location.latitude", "latitude">>,
                <<"append", "location.longitude", "longitude">>,
                <<"append", "unitsSystem", "unitsSystem">>,
                <<"toString", "pageSize", "pageSize">>,
                <<"if", "pageToken", "pageToken">>,
                <<"toString", "hours", "hours">>,
                <<"append", "languageCode", "languageCode">> >>,
   fetchUrl |-> "rawkey", header |-> "Content-Type",
   prefix |-> "An error occurred while retrieving weather data: "]

current_conditions ==
  [name |-> "current_conditions",
   required |-> <<"latitude", "longitude">>,
   baseUrl |-> "https://weather.googleapis.com/v1/currentConditions:lookup",
   params |-> << <<"latitude", "number">>, <<"longitude", "number">>,
                 <<"unitsSystem", "string">>, <<"languageCode", "string">> >>,
   defaults |-> [unitsSystem |-> Str(<<"METRIC">>), languageCode |-> Str(<<"en">>)],
   steps |-> << <<"append", "location.latitude", "latitude">>,
                <<"append", "location.longitude", "longitude">>,
                <<"append", "unitsSystem", "unitsSystem">>,
                <<"append", "languageCode", "languageCode">> >>,
   fetchUrl |-> "rawkey", header |-> "Content-Type",
   prefix |-> "An error occurred while fetching current weather conditions: "]

ToolNames ==
  {"distance_matrix", "autocomplete_place", "query_autocomplete",
   "get_place_details", "nearby_search", "text_search",
   "find_place_from_text", "get_time_zone", "nearest_roads", "snap_to_roads",
   "forecast_days", "forecast_hours", "get_hourly_weather", "current_conditions"}

apiTool(n) ==
  CASE n = "distance_matrix" -> distance_matrix
    [] n = "autocomplete_place" -> autocomplete_place
    [] n = "query_autocomplete" -> query_autocomplete
    [] n = "get_place_details" -> get_place_details
    [] n = "nearby_search" -> nearby_search
    [] n = "text_search" -> text_search
    [] n = "find_place_from_text" -> find_place_from_text
    [] n = "get_time_zone" -> get_time_zone
    [] n = "nearest_roads" -> nearest_roads
    [] n = "snap_to_roads" -> snap_to_roads
    [] n = "forecast_days" -> forecast_days
    [] n = "forecast_hours" -> forecast_hours
    [] n = "get_hourly_weather" -> get_hourly_weather
    [] n = "current_conditions" -> current_conditions

ParamNames(tool) == {tool.params[i][1] : i \in 1..Len(tool.params)}
RequiredNames(tool) == {tool.required[i] : i \in 1..Len(tool.required)}
OptionalNames(tool) == ParamNames(tool) \ RequiredNames(tool)
ParamType(tool, p) ==
  tool.params[CHOOSE i \in 1..Len(tool.params) : tool.params[i][1] = p][2]

(***************************************************************************)
(* The apiTool objects, in source order.  Each pairs a descriptor          *)
(* (definition.function: name, parameters.properties with their declared   *)
(* type, parameters.required) with its executor (function).                *)
(***************************************************************************)
definitions ==
  << [name |-> "distance_matrix",
    properties |-> << <<"origins", "string">>, <<"destinations", "string">>,
                      <<"mode", "string">>, <<"units", "string">>,
                      <<"language", "string">>,
                      <<"departure_time", "integer">>, <<"avoid", "string">>,
                      <<"traffic_model", "string">> >>,
    required |-> <<"origins", "destinations">>],
   [name |-> "autocomplete_place",
    properties |-> << <<"input", "string">>, <<"sessiontoken", "string">>,
                      <<"components", "string">>,
                      <<"strictbounds", "boolean">>, <<"offset", "integer">>,
                      <<"origin", "string">>, <<"location", "string">>,
                      <<"radius", "integer">>, <<"types", "string">>,
                      <<"language", "string">>, <<"region", "string">> >>,
    required |-> <<"input">>],
   [name |-> "query_autocomplete",
    properties |-> << <<"input", "string">>, <<"offset", "integer">>,
                      <<"location", "string">>, <<"radius", "integer">>,
                      <<"language", "string">> >>,
    required |-> <<"input">>],
   [name |-> "get_place_details",
    properties |-> << <<"place_id", "string">>, <<"fields", "string">>,
                      <<"sessiontoken", "string">>, <<"language", "string">>,
                      <<"region", "string">> >>,
    required |-> <<"place_id">>],
   [name |-> "nearby_search",
    properties |-> << <<"location", "string">>, <<"keyword", "string">>,
                      <<"name", "string">>, <<"radius", "number">>,
                      <<"type", "string">>, <<"language", "string">> >>,
    required |-> <<"location">>],
   [name |-> "text_search",
    properties |-> << <<"query", "string">>, <<"location", "string">>,
                      <<"maxprice", "string">>, <<"minprice", "string">>,
                      <<"opennow", "boolean">>, <<"pagetoken", "string">>,
                      <<"radius", "number">>, <<"type", "string">>,
                      <<"language", "string">>, <<"region", "string">> >>,
    required |-> <<"query">>],
   [name |-> "find_place_from_text",
    properties |-> << <<"input", "string">>, <<"inputtype", "string">>,
                      <<"fields", "string">>, <<"locationbias", "string">>,
                      <<"language", "string">> >>,
    required |-> <<"input", "inputtype">>],
   [name |-> "get_time_zone",
    properties |-> << <<"location", "string">>, <<"timestamp", "number">> >>,
    required |-> <<"location", "timestamp">>],
   [name |-> "nearest_roads",
    properties |-> << <<"points", "string">> >>,
    required |-> <<"points">>],
   [name |-> "snap_to_roads",
    properties |-> << <<"path", "string">>, <<"interpolate", "boolean">> >>,
    required |-> <<"path">>],
   [name |-> "forecast_days",
    properties |-> << <<"latitude", "number">>, <<"longitude", "number">>,
                      <<"pageSize", "integer">>, <<"pageToken", "string">>,
                      <<"days", "integer">>, <<"languageCode", "string">> >>,
    required |-> <<"latitude", "longitude">>],
   [name |-> "forecast_hours",
    properties |-> << <<"latitude", "number">>, <<"longitude", "number">>,
                      <<"unitsSystem", "string">>, <<"pageSize", "integer">>,
                      <<"pageToken", "string">>, <<"days", "integer">>,
                      <<"languageCode", "string">> >>,
    required |-> <<"latitude", "longitude">>],
   [name |-> "get_hourly_weather",
    properties |-> << <<"latitude", "number">>, <<"longitude", "number">>,
                      <<"unitsSystem", "string">>, <<"pageSize", "integer">>,
                      <<"pageToken", "string">>, <<"hours", "integer">>,
                      <<"languageCode", "string">> >>,
    required |-> <<"latitude", "longitude">>],
   [name |-> "current_conditions",
    properties |-> << <<"latitude", "number">>, <<"longitude", "number">>,
                      <<"unitsSystem", "string">>,
                      <<"languageCode", "string">> >>,
    required |-> <<"latitude", "longitude">>] >>

functions ==
  <<distance_matrix, autocomplete_place, query_autocomplete, get_place_details,
    nearby_search, text_search, find_place_from_text, get_time_zone,
    nearest_roads, snap_to_roads, forecast_days, forecast_hours,
    get_hourly_weather, current_conditions>>

(***************************************************************************)
(* Thrown values and the catch block                                       *)
(***************************************************************************)
NoThrow == [kind |-> "none", name |-> "", message |-> "", value |-> JNull]
\* an Error has no enumerable property: JSON.stringify gives {}
Error(name, message) ==
  [kind |-> "Error", name |-> name, message |-> message, value |-> JObj(<<>>)]
\* a thrown value that is not an Error
Thrown(j) == [kind |-> "value", name |-> "", message |-> "", value |-> j]

\* V8's message for a property read on undefined or null
CannotRead(x, prop) ==
  Error("TypeError", "Cannot read properties of " \o Text(ToString(x))
                     \o " (reading '" \o prop \o "')")

\* catch (error) { return { error: `<prefix>${error instanceof Error ?
\*                                   error.message : JSON.stringify(error)}` } }
catchStringifiesAll(tool, e) ==
  JObj(<< <<"error", JStr(tool.prefix \o Stringify(e.value))>> >>)
catchNoPrefix(tool, e) ==
  JObj(<< <<"error", JStr(IF e.kind = "Error" THEN e.message ELSE Stringify(e.value))>> >>)
catch(tool, e) ==
  JObj(<< <<"error", JStr(tool.prefix \o
            (IF e.kind = "Error" THEN e.message ELSE Stringify(e.value)))>> >>)

(***************************************************************************)
(* Building the request                                                    *)
(***************************************************************************)
\* the parameter destructuring: every property, with its default if it has one
Bind(tool, a) ==
  [p \in ParamNames(tool) |->
     IF p \in DOMAIN tool.defaults THEN Default(Get(a, p), tool.defaults[p])
     ELSE Get(a, p)]

\* the statements between `new URL` and fetch; stops at the first exception
RECURSIVE RunSteps(_, _, _, _)
RunSteps(steps, b, apiKey, sp) ==
  IF steps = <<>> THEN [thrown |-> NoThrow, sp |-> sp]
  ELSE LET s == Head(steps)
           rest == Tail(steps)
       IN CASE s[1] = "append" -> RunSteps(rest, b, apiKey, append(sp, s[2], b[s[3]]))
            [] s[1] = "if" ->
                 RunSteps(rest, b, apiKey,
                          IF Truthy(b[s[3]]) THEN append(sp, s[2], b[s[3]]) ELSE sp)
            [] s[1] = "toString" ->
                 IF CanReadProperty(b[s[3]])
                 THEN RunSteps(rest, b, apiKey, append(sp, s[2], Str(ToString(b[s[3]]))))
                 ELSE [thrown |-> CannotRead(b[s[3]], "toString"), sp |-> sp]
            [] s[1] = "key" -> RunSteps(rest, b, apiKey, append(sp, s[2], apiKey))
            [] s[1] = "ifkey" ->
                 RunSteps(rest, b, apiKey,
                          IF Truthy(apiKey) THEN append(sp, s[2], apiKey) ELSE sp)

\* the string handed to fetch
FetchUrl(tool, sp, apiKey) ==
  CASE tool.fetchUrl = "href" -> <<tool.baseUrl, "?">> \o Serialize(sp)
    [] tool.fetchUrl = "params" -> <<tool.baseUrl, "?">> \o Serialize(sp)
    [] tool.fetchUrl = "rawkey" ->
         <<tool.baseUrl, "?">> \o Serialize(sp) \o <<"&", "key", "=">> \o ToString(apiKey)

NoRequest == [method |-> "", url |-> <<>>, headers |-> <<>>]
RequestAcceptsJson(tool, sp, apiKey) ==
  [method |-> "GET", url |-> FetchUrl(tool, sp, apiKey),
   headers |-> << <<"Accept", "application/json">> >>]
Request(tool, sp, apiKey) ==
  [method |-> "GET", url |-> FetchUrl(tool, sp, apiKey),
   headers |-> << <<tool.header, "application/json">> >>]

(***************************************************************************)
(* The environment: the configured key, the arguments, the transport       *)
(***************************************************************************)
\* process.env.GOOGLE_MAPS_PLATFORM_API_KEY: unset, empty, or a string
Keys == {Undefined, Str(<<>>), Str(<<"AIzaK1">>), Str(<<"k", "&", "x", "=", "1">>)}

SampleString == Str(<<"39.6034810", ",", "-119.6822510">>)
SampleNumber == Num(1331161200)

\* the values a caller passes for a property of the declared type
Falsy(type) ==
  CASE type = "string" -> Str(<<>>)
    [] type = "number" -> Num(0)
    [] type = "boolean" -> Bool(FALSE)
Sample(type) ==
  CASE type = "string" -> SampleString
    [] type = "number" -> SampleNumber
    [] type = "boolean" -> Bool(TRUE)
AllValues == {Null} \cup {Falsy(t) : t \in {"string", "number", "boolean"}}
                    \cup {Sample(t) : t \in {"string", "number", "boolean"}}
RequiredValues(tool, p) == {Null, Sample(ParamType(tool, p))}
OptionalValues(tool, p) ==
  {Null, Falsy(ParamType(tool, p)), Sample(ParamType(tool, p))}

\* the property maps of the arguments objects: any subset of the required
\* properties and at most MaxSupplied optional ones
ArgMaps(tool) ==
  UNION { { f \in [R \cup S -> AllValues] :
              /\ \A p \in R : f[p] \in RequiredValues(tool, p)
              /\ \A p \in S : f[p] \in OptionalValues(tool, p) } :
          <<R, S>> \in { <<R, S>> \in (SUBSET RequiredNames(tool)) \X (SUBSET OptionalNames(tool)) :
                           Cardinality(S) <= MaxSupplied } }
Arguments(tool) == {Undefined, Null} \cup {Obj(f) : f \in ArgMaps(tool)}

NoBody == [kind |-> "none", json |-> JNull]
Json(j) == [kind |-> "json", json |-> j]
\* an empty body, which JSON.parse rejects
Unparseable == [kind |-> "unparseable", json |-> JNull]
\* the connection breaks while the body is read
Aborted == [kind |-> "aborted", json |-> JNull]

Bodies ==
  {Json(JObj(<< <<"status", JStr("OK")>>, <<"rows", JArr(<<>>)>> >>)),
   Json(JObj(<< <<"error_message", JStr("invalid request")>> >>)),
   Json(JObj(<< <<"error", JObj(<< <<"code", JNum(403)>> >>)>> >>)),
   Json(JNull), Unparseable, Aborted}
Statuses == {200, 400, 503}
NoResponse == [status |-> 0, body |-> NoBody]
Responses == [status : Statuses, body : Bodies]
\* Response.ok
ok(r) == r.status >= 200 /\ r.status <= 299

\* what fetch rejects with: undici's TypeError, or whatever a replaced
\* transport throws
Rejections ==
  {Error("TypeError", "fetch failed"),
   Thrown(JStr("ECONNREFUSED")),
   Thrown(JObj(<< <<"code", JNum(111)>> >>))}

(***************************************************************************)
(* One invocation of an executor                                           *)
(***************************************************************************)
NoResult == [t |-> "none", v |-> <<>>]
Idle ==
  [status |-> "Idle", tool |-> "", args |-> Undefined, apiKey |-> Undefined,
   searchParams |-> <<>>, request |-> NoRequest, fetches |-> 0,
   response |-> NoResponse, thrown |-> NoThrow, result |-> NoResult]

\* V8's message when the parameter pattern meets undefined or null
CannotDestructure(tool, a) ==
  Error("TypeError", "Cannot destructure property '" \o tool.params[1][1] \o "' of '"
                     \o Text(ToString(a)) \o "' as it is " \o Text(ToString(a)) \o ".")

\* the call itself, up to the first await: the parameter pattern is matched
\* before the body (and its try) is entered; then the key is read, the query
\* is built and fetch is called
executeFunctionValidates(n, a, key) ==
  LET tool == apiTool(n)
      called == [Idle EXCEPT !.tool = n, !.args = a]
  IN IF a.t \in {"undefined", "null"}
     THEN [called EXCEPT !.status = "Rejected", !.thrown = CannotDestructure(tool, a)]
     ELSE IF \E p \in RequiredNames(tool) : Get(a, p).t = "undefined"
     THEN [called EXCEPT !.status = "Failure", !.apiKey = key,
                         !.thrown = Error("Error", "Missing required parameter"),
                         !.result = catch(tool, Error("Error", "Missing required parameter"))]
     ELSE LET built == RunSteps(tool.steps, Bind(tool, a), key, <<>>)
          IN IF built.thrown.kind # "none"
             THEN [called EXCEPT !.status = "Failure", !.apiKey = key,
                                 !.searchParams = built.sp,
                                 !.thrown = built.thrown,
                                 !.result = catch(tool, built.thrown)]
             ELSE [called EXCEPT !.status = "AwaitingResponse", !.apiKey = key,
                                 !.searchParams = built.sp,
                                 !.request = Request(tool, built.sp, key),
                                 !.fetches = 1]
executeFunctionRequiresKey(n, a, key) ==
  LET tool == apiTool(n)
      called == [Idle EXCEPT !.tool = n, !.args = a]
  IN IF a.t \in {"undefined", "null"}
     THEN [called EXCEPT !.status = "Rejected", !.thrown = CannotDestructure(tool, a)]
     ELSE IF ~Truthy(key)
     THEN [called EXCEPT !.status = "Failure", !.apiKey = key,
                         !.thrown = Error("Error", "API key is not configured"),
                         !.result = catch(tool, Error("Error", "API key is not configured"))]
     ELSE LET built == RunSteps(tool.steps, Bind(tool, a), key, <<>>)
          IN IF built.thrown.kind # "none"
             THEN [called EXCEPT !.status = "Failure", !.apiKey = key,
                                 !.searchParams = built.sp,
                                 !.thrown = built.thrown,
                                 !.result = catch(tool, built.thrown)]
             ELSE [called EXCEPT !.status = "AwaitingResponse", !.apiKey = key,
                                 !.searchParams = built.sp,
                                 !.request = Request(tool, built.sp, key),
                                 !.fetches = 1]
executeFunction(n, a, key) ==
  LET tool == apiTool(n)
      called == [Idle EXCEPT !.tool = n, !.args = a]
  IN IF a.t \in {"undefined", "null"}
     THEN [called EXCEPT !.status = "Rejected", !.thrown = CannotDestructure(tool, a)]
     ELSE LET built == RunSteps(tool.steps, Bind(tool, a), key, <<>>)
          IN IF built.thrown.kind # "none"
             THEN [called EXCEPT !.status = "Failure", !.apiKey = key,
                                 !.searchParams = built.sp,
                                 !.thrown = built.thrown,
                                 !.result = catch(tool, built.thrown)]
             ELSE [called EXCEPT !.status = "AwaitingResponse", !.apiKey = key,
                                 !.searchParams = built.sp,
                                 !.request = Request(tool, built.sp, key),
                                 !.fetches = 1]

\* await fetch(...) rejects: the catch block returns
fetchRejectedRetry(i, e) ==
  IF i.fetches < 2 THEN [i EXCEPT !.fetches = i.fetches + 1]
  ELSE [i EXCEPT !.status = "Failure", !.thrown = e, !.result = catch(apiTool(i.tool), e)]
fetchRejected(i, e) ==
  [i EXCEPT !.status = "Failure", !.thrown = e, !.result = catch(apiTool(i.tool), e)]

\* await fetch(...) resolves: response.json() is called on either branch
fetchResolvedConsumesArgs(i, r) ==
  [i EXCEPT !.status = "AwaitingBody", !.response = r, !.args = Obj(<<>>)]
fetchResolved(i, r) == [i EXCEPT !.status = "AwaitingBody", !.response = r]

\* await response.json() resolves with the parsed body
jsonResolvedIgnoresOk(i) ==
  [i EXCEPT !.status = "Success", !.result = i.response.body.json]
jsonResolvedWraps(i) ==
  LET data == i.response.body.json
  IN IF ~ok(i.response)
     THEN [i EXCEPT !.status = "Failure",
                    !.thrown = Error("Error", Stringify(data)),
                    !.result = catch(apiTool(i.tool), Error("Error", Stringify(data)))]
     ELSE [i EXCEPT !.status = "Success", !.result = JObj(<< <<"data", data>> >>)]
jsonResolvedAwaitsAgain(i) ==
  [i EXCEPT !.status = "AwaitingResponse", !.response = NoResponse]
jsonResolved(i) ==
  LET data == i.response.body.json
  IN IF ~ok(i.response)
     THEN [i EXCEPT !.status = "Failure",
                    !.thrown = Error("Error", Stringify(data)),
                    !.result = catch(apiTool(i.tool), Error("Error", Stringify(data)))]
     ELSE [i EXCEPT !.status = "Success", !.result = data]

\* await response.json() rejects: the body is not JSON, or the read failed
BodyError(body) ==
  IF body.kind = "unparseable"
  THEN Error("SyntaxError", "Unexpected end of JSON input")
  ELSE Error("TypeError", "terminated")
jsonRejectedRefetches(i) ==
  IF i.fetches < 2
  THEN [i EXCEPT !.status = "AwaitingResponse", !.fetches = i.fetches + 1,
                 !.response = NoResponse]
  ELSE [i EXCEPT !.status = "Failure", !.thrown = BodyError(i.response.body),
                 !.result = catch(apiTool(i.tool), BodyError(i.response.body))]
jsonRejectedReportsStatus(i) ==
  LET e == IF ok(i.response) THEN BodyError(i.response.body)
           ELSE Error("Error", "HTTP " \o Text(Decimal(i.response.status)))
  IN [i EXCEPT !.status = "Failure", !.thrown = e, !.result = catch(apiTool(i.tool), e)]
jsonRejected(i) ==
  [i EXCEPT !.status = "Failure", !.thrown = BodyError(i.response.body),
            !.result = catch(apiTool(i.tool), BodyError(i.response.body))]

(***************************************************************************)
(* The state machine                                                       *)
(***************************************************************************)
Callers == 1..NumCallers

\* the objects an executor could reach: the apiTool descriptors, and the
\* arguments object as the caller passed it (inv.args is the object as the
\* executor leaves it)
Heap == [apiTools |-> definitions, passed |-> Undefined]

Init ==
  env \in Keys /\ inv = Idle /\ calls = [c \in Callers |-> Idle] /\ heap = Heap

Invoke ==
  /\ inv.status = "Idle"
  /\ \E n \in ToolNames : \E a \in Arguments(apiTool(n)) :
       /\ inv' = executeFunction(n, a, env)
       /\ heap' = [heap EXCEPT !.passed = a]
  /\ UNCHANGED <<env, calls>>

FetchRejects ==
  /\ inv.status = "AwaitingResponse"
  /\ \E e \in Rejections : inv' = fetchRejected(inv, e)
  /\ UNCHANGED <<env, calls, heap>>

FetchResolves ==
  /\ inv.status = "AwaitingResponse"
  /\ \E r \in Responses : inv' = fetchResolved(inv, r)
  /\ UNCHANGED <<env, calls, heap>>

JsonResolves ==
  /\ inv.status = "AwaitingBody"
  /\ inv.response.body.kind = "json"
  /\ inv' = jsonResolved(inv)
  /\ UNCHANGED <<env, calls, heap>>

JsonRejects ==
  /\ inv.status = "AwaitingBody"
  /\ inv.response.body.kind # "json"
  /\ inv' = jsonRejected(inv)
  /\ UNCHANGED <<env, calls, heap>>

Next == Invoke \/ FetchRejects \/ FetchResolves \/ JsonResolves \/ JsonRejects

Spec == Init /\ [][Next]_vars

(***************************************************************************)
(* A transport that settles.  The executor has no timer and no abort       *)
(* signal: an invocation resumes only when the promise it awaits settles.  *)
(* Weak fairness on the two settlements says that the transport does       *)
(* settle the call and the body read; nothing obliges a caller to call.    *)
(***************************************************************************)
SettlingCalls ==
  {<<"nearby_search", Obj([location |-> SampleString])>>,
   <<"nearby_search", Obj([location |-> SampleString, radius |-> SampleNumber])>>,
   <<"get_time_zone", Obj([location |-> SampleString, timestamp |-> SampleNumber])>>,
   <<"get_time_zone", Obj([location |-> SampleString])>>}

Start ==
  /\ inv.status = "Idle"
  /\ \E k \in SettlingCalls :
       /\ inv' = executeFunction(k[1], k[2], env)
       /\ heap' = [heap EXCEPT !.passed = k[2]]
  /\ UNCHANGED <<env, calls>>

SettlingNext == Start \/ FetchRejects \/ FetchResolves \/ JsonResolves \/ JsonRejects

Settling ==
  /\ Init /\ [][SettlingNext]_vars
  /\ WF_vars(FetchRejects \/ FetchResolves)
  /\ WF_vars(JsonResolves \/ JsonRejects)

(***************************************************************************)
(* Several invocations in flight.  An executor runs without interruption   *)
(* from its call to its first await and from one await to the next, so the *)
(* invocations interleave at their awaits.  Every executor keeps its URL,  *)
(* key, response and data in locals: nothing but process.env is shared.    *)
(***************************************************************************)
\* the calls made while several invocations are in flight
ConcurrentCalls ==
  {<<"get_place_details", Obj([place_id |-> SampleString])>>,
   <<"text_search", Obj([query |-> SampleString])>>,
   <<"text_search", Obj([query |-> SampleString, language |-> Str(<<>>)])>>,
   <<"forecast_hours", Obj([latitude |-> SampleNumber, longitude |-> SampleNumber])>>}
ConcurrentResponses ==
  {r \in Responses :
     /\ r.status \in {200, 503}
     /\ r.body \in {Json(JObj(<< <<"status", JStr("OK")>>, <<"rows", JArr(<<>>)>> >>)),
                    Unparseable}}
ConcurrentRejections == {Error("TypeError", "fetch failed")}
ConcurrentKeys == {Undefined, Str(<<"AIzaK1">>)}

\* caller c calls the tool's function: a fresh activation, with its own locals
callMemoized(cs, c, n, a, key) ==
  IF \E d \in DOMAIN cs : d # c /\ cs[d].tool = n /\ cs[d].args = a
                            /\ cs[d].status \in {"Success", "Failure"}
  THEN LET d == CHOOSE d \in DOMAIN cs : d # c /\ cs[d].tool = n /\ cs[d].args = a
                                         /\ cs[d].status \in {"Success", "Failure"}
       IN [cs EXCEPT ![c] = [Idle EXCEPT !.tool = n, !.args = a, !.apiKey = key,
                                         !.status = cs[d].status,
                                         !.result = cs[d].result]]
  ELSE [cs EXCEPT ![c] = executeFunction(n, a, key)]
callSharedUrl(cs, c, n, a, key) ==
  LET i == executeFunction(n, a, key)
      others == {d \in DOMAIN cs : d # c /\ cs[d].status = "AwaitingResponse"}
  IN IF others = {} \/ i.status # "AwaitingResponse" THEN [cs EXCEPT ![c] = i]
     ELSE LET d == CHOOSE d \in others : TRUE
          IN [cs EXCEPT ![c] = [i EXCEPT !.request.url =
                                   cs[d].request.url \o <<"&">> \o Serialize(i.searchParams)]]
callKeyReadAtLoad(cs, c, n, a, key) ==
  [cs EXCEPT ![c] = executeFunction(n, a, Str(<<"AIzaK1">>))]
call(cs, c, n, a, key) == [cs EXCEPT ![c] = executeFunction(n, a, key)]

Call ==
  /\ \E c \in Callers :
       /\ calls[c].status = "Idle"
       /\ \E k \in ConcurrentCalls : calls' = call(calls, c, k[1], k[2], env)
  /\ UNCHANGED <<env, inv, heap>>

Rejects ==
  /\ \E c \in Callers :
       /\ calls[c].status = "AwaitingResponse"
       /\ \E e \in ConcurrentRejections :
            calls' = [calls EXCEPT ![c] = fetchRejected(calls[c], e)]
  /\ UNCHANGED <<env, inv, heap>>

Resolves ==
  /\ \E c \in Callers :
       /\ calls[c].status = "AwaitingResponse"
       /\ \E r \in ConcurrentResponses :
            calls' = [calls EXCEPT ![c] = fetchResolved(calls[c], r)]
  /\ UNCHANGED <<env, inv, heap>>

Parses ==
  /\ \E c \in Callers :
       /\ calls[c].status = "AwaitingBody"
       /\ calls[c].response.body.kind = "json"
       /\ calls' = [calls EXCEPT ![c] = jsonResolved(calls[c])]
  /\ UNCHANGED <<env, inv, heap>>

ParseFails ==
  /\ \E c \in Callers :
       /\ calls[c].status = "AwaitingBody"
       /\ calls[c].response.body.kind # "json"
       /\ calls' = [calls EXCEPT ![c] = jsonRejected(calls[c])]
  /\ UNCHANGED <<env, inv, heap>>

ConcurrentNext == Call \/ Rejects \/ Resolves \/ Parses \/ ParseFails

ConcurrentInit ==
  /\ env \in ConcurrentKeys /\ inv = Idle /\ calls = [c \in Callers |-> Idle]
  /\ heap = Heap

Concurrent == ConcurrentInit /\ [][ConcurrentNext]_vars

(***************************************************************************)
(* The configured key changing while invocations are in flight.  Each      *)
(* executor reads process.env once, into the local apiKey, as its first    *)
(* statements; nothing in the files writes process.env, the host may.      *)
(***************************************************************************)
ReconfiguredCalls ==
  {<<"distance_matrix", Obj([origins |-> SampleString, destinations |-> SampleString])>>,
   <<"forecast_days", Obj([latitude |-> SampleNumber, longitude |-> SampleNumber])>>}

CallNow ==
  /\ \E c \in Callers :
       /\ calls[c].status = "Idle"
       /\ \E k \in ReconfiguredCalls : calls' = call(calls, c, k[1], k[2], env)
  /\ UNCHANGED <<env, inv, heap>>

\* the host process sets process.env.GOOGLE_MAPS_PLATFORM_API_KEY anew
Configure ==
  /\ \E k \in ConcurrentKeys \ {env} : env' = k
  /\ UNCHANGED <<inv, calls, heap>>

ReconfiguredNext ==
  CallNow \/ Rejects \/ Resolves \/ Parses \/ ParseFails \/ Configure

Reconfigured == ConcurrentInit /\ [][ReconfiguredNext]_vars

(***************************************************************************)
(* Reading a request back: the query a server receives                     *)
(***************************************************************************)
DecodeChunk(c) ==
  CASE c = "%2C" -> "," [] c = "%26" -> "&" [] c = "%3D" -> "="
    [] c = "%23" -> "#" [] c = "%7C" -> "|" [] c = "%25" -> "%"
    [] c = "%2B" -> "+" [] c = "+" -> " "
    [] OTHER -> c
Decode(s) == [i \in 1..Len(s) |-> DecodeChunk(s[i])]

\* the index of the first c in s from position i on, or 0
RECURSIVE IndexFrom(_, _, _)
IndexFrom(s, c, i) ==
  IF i > Len(s) THEN 0 ELSE IF s[i] = c THEN i ELSE IndexFrom(s, c, i + 1)
Occurs(s, c) == IndexFrom(s, c, 1) # 0
Before(s, c) == IF Occurs(s, c) THEN SubSeq(s, 1, IndexFrom(s, c, 1) - 1) ELSE s
After(s, c) == IF Occurs(s, c) THEN SubSeq(s, IndexFrom(s, c, 1) + 1, Len(s)) ELSE <<>>

RECURSIVE Split(_, _)
Split(s, c) == IF Occurs(s, c) THEN <<Before(s, c)>> \o Split(After(s, c), c) ELSE <<s>>

\* the name/value pairs of a URL's query, as text: the fragment is dropped,
\* the query is cut at "&" and each piece at its first "="
ParseQuery(url) ==
  LET pieces == Split(Before(After(url, "?"), "#"), "&")
  IN [i \in 1..Len(pieces) |->
        <<Text(Decode(Before(pieces[i], "="))), Text(Decode(After(pieces[i], "=")))>>]

\* the parameters a request carries ahead of `key` (all of them when it has
\* no `key`): what follows "key=" is the text of the configured key
BeforeKey(q) ==
  IF \E i \in 1..Len(q) : q[i][1] = "key"
  THEN SubSeq(q, 1, (CHOOSE i \in 1..Len(q) :
                       q[i][1] = "key" /\ \A j \in 1..(i - 1) : q[j][1] # "key") - 1)
  ELSE q
SentParams == BeforeKey(ParseQuery(inv.request.url))
\* the values a parsed query carries under one name
ValuesFor(q, name) ==
  LET es == SelectSeq(q, LAMBDA e : e[1] = name)
  IN [i \in 1..Len(es) |-> es[i][2]]

Terminal == inv.status \in {"Success", "Failure"}
Issued == inv.fetches >= 1
\* the request has just been handed to fetch
Issuing == inv.status = "AwaitingResponse"
SuccessStatus(r) == r.status \in 200..299
ErrorResult(message) == JObj(<< <<"error", JStr(message)>> >>)
IsErrorResult(r) ==
  /\ r.t = "obj"
  /\ Len(r.v) = 1
  /\ r.v[1][1] = "error"
  /\ r.v[1][2].t = "str"
IsFalsy(x) ==
  \/ x.t \in {"undefined", "null"}
  \/ x.t = "string" /\ x.v = <<>>
  \/ x.t = "number" /\ x.v = 0
  \/ x.t = "boolean" /\ x.v = FALSE

(***************************************************************************)
(* Properties                                                              *)
(***************************************************************************)

\* C1: no invocation, whatever its arguments value, key, status, body or
\* transport outcome, throws or rejects past the tool boundary.
\* Violated: an undefined or null arguments value fails the parameter
\* pattern before the try block is entered, and the promise rejects.
C1_NeverRejects == inv.status # "Rejected"

\* C2: a finished invocation's result carries an `error` key if and only if
\* the invocation failed.  Violated: a success-status body that itself has
\* an `error` member is returned verbatim.
C2_ErrorKeyIffFailed ==
  Terminal => (HasKey(inv.result, "error") <=> inv.status = "Failure")

\* C3: when the response has a success status and a JSON body B, the
\* invocation succeeds and its result is B, unchanged.
C3_SuccessBodyVerbatim ==
  (Terminal /\ inv.response.body.kind = "json" /\ SuccessStatus(inv.response))
    => (inv.status = "Success" /\ inv.result = inv.response.body.json)
C3_Witness ==
  /\ inv.status = "Success"
  /\ inv.tool = "distance_matrix"
  /\ inv.response.status = 200
  /\ inv.result = JObj(<< <<"status", JStr("OK")>>, <<"rows", JArr(<<>>)>> >>)

\* C4 as stated: a non-success status with JSON body B gives { error: S }
\* with S exactly JSON.stringify(B).
C4_ErrorIsStringifiedBody ==
  (Terminal /\ inv.response.body.kind = "json"
     /\ inv.response.status # 0 /\ ~SuccessStatus(inv.response))
    => inv.result = ErrorResult(Stringify(inv.response.body.json))
\* C4 amended: a non-success status with JSON body B gives { error: S }
\* with S the tool's fixed message prefix followed by JSON.stringify(B).
C4_ErrorIsPrefixedStringifiedBody ==
  (Terminal /\ inv.response.body.kind = "json"
     /\ inv.response.status # 0 /\ ~SuccessStatus(inv.response))
    => inv.result = ErrorResult(apiTool(inv.tool).prefix
                                \o Stringify(inv.response.body.json))
C4_Witness ==
  /\ inv.status = "Failure"
  /\ inv.tool = "distance_matrix"
  /\ inv.response.status = 400
  /\ inv.response.body = Json(JObj(<< <<"error_message", JStr("invalid request")>> >>))
  /\ inv.result = ErrorResult("An error occurred while fetching the distance matrix: "
                              \o "{\"error_message\":\"invalid request\"}")

\* C5: a response with a non-success status always ends in an error result,
\* whether its body is JSON of any shape, not JSON, or cannot be read.
C5_NonSuccessStatusIsError ==
  (Terminal /\ inv.response.status # 0 /\ ~SuccessStatus(inv.response))
    => (inv.status = "Failure" /\ IsErrorResult(inv.result))
C5_Witness ==
  /\ inv.status = "Failure"
  /\ inv.response.status = 503
  /\ inv.response.body = Unparseable
  /\ IsErrorResult(inv.result)

\* C6: when fetch rejects, the invocation does not throw; it returns
\* { error: s } where s ends with the thrown Error's message, or with
\* JSON.stringify of the thrown value when that is not an Error (s is the
\* tool's prefix followed by that text).
C6_TransportFailureIsError ==
  (Issued /\ inv.status # "AwaitingResponse" /\ inv.response = NoResponse)
    => /\ inv.status = "Failure"
       /\ inv.thrown \in Rejections
       /\ inv.result = ErrorResult(apiTool(inv.tool).prefix \o
                         (IF inv.thrown.kind = "Error" THEN inv.thrown.message
                          ELSE Stringify(inv.thrown.value)))
C6_Witness ==
  /\ inv.status = "Failure"
  /\ inv.tool = "find_place_from_text"
  /\ inv.response = NoResponse
  /\ inv.thrown = Error("TypeError", "fetch failed")
  /\ inv.result = ErrorResult("An error occurred while finding place from text: fetch failed")

\* what the documentation gives for a call with the required arguments only:
\* the wire names of the required parameters, and the documented defaults
DocumentedRequired(n) ==
  CASE n = "distance_matrix" -> <<"origins", "destinations">>
    [] n = "autocomplete_place" -> <<"input">>
    [] n = "query_autocomplete" -> <<"input">>
    [] n = "get_place_details" -> <<"place_id">>
    [] n = "nearby_search" -> <<"location">>
    [] n = "text_search" -> <<"query">>
    [] n = "find_place_from_text" -> <<"input", "inputtype">>
    [] n = "get_time_zone" -> <<"location", "timestamp">>
    [] n = "nearest_roads" -> <<"points">>
    [] n = "snap_to_roads" -> <<"path">>
    [] OTHER -> <<"latitude", "longitude">>
WireName(p) == IF p \in {"latitude", "longitude"} THEN "location." \o p ELSE p
DocumentedDefaults(n) ==
  CASE n = "distance_matrix" ->
         << <<"mode", "driving">>, <<"units", "metric">>, <<"language", "en">>,
            <<"traffic_model", "best_guess">> >>
    [] n \in {"autocomplete_place", "get_place_details", "text_search"} ->
         << <<"language", "en">>, <<"region", "en">> >>
    [] n \in {"query_autocomplete", "nearby_search", "find_place_from_text"} ->
         << <<"language", "en">> >>
    [] n \in {"get_time_zone", "nearest_roads"} -> <<>>
    [] n = "snap_to_roads" -> << <<"interpolate", "false">> >>
    [] n = "forecast_days" ->
         << <<"pageSize", "5">>, <<"days", "10">>, <<"languageCode", "en">> >>
    [] n = "forecast_hours" ->
         << <<"unitsSystem", "METRIC">>, <<"pageSize", "24">>, <<"days", "240">>,
            <<"languageCode", "en">> >>
    [] n = "get_hourly_weather" ->
         << <<"unitsSystem", "METRIC">>, <<"pageSize", "24">>, <<"hours", "24">>,
            <<"languageCode", "en">> >>
    [] n = "current_conditions" ->
         << <<"unitsSystem", "METRIC">>, <<"languageCode", "en">> >>
RequiredOnly(n, a) ==
  /\ a.t = "object"
  /\ DOMAIN a.v = {DocumentedRequired(n)[i] : i \in 1..Len(DocumentedRequired(n))}
  /\ \A p \in DOMAIN a.v : a.v[p].t # "null"
ExpectedQuery(n, a, key) ==
  [i \in 1..Len(DocumentedRequired(n)) |->
     <<WireName(DocumentedRequired(n)[i]), Text(ToString(a.v[DocumentedRequired(n)[i]]))>>]
  \o DocumentedDefaults(n)
  \o << <<"key", Text(ToString(key))>> >>

\* C7: an invocation given all required arguments and no optional one
\* issues a request whose query is exactly the required parameters, then the
\* documented defaults, then the API key, and nothing else.
\* Violated: forecast_hours leaves `key` out when the key is unset or empty,
\* and the tools that concatenate the key unencoded let a key holding "&"
\* add parameters.
C7_RequiredOnlyQuery ==
  (Issuing /\ RequiredOnly(inv.tool, inv.args))
    => ParseQuery(inv.request.url) = ExpectedQuery(inv.tool, inv.args, env)

\* the optional parameters with a default that the executor appends
\* only when their value is truthy
GuardedDefaults ==
  {<<"distance_matrix", "traffic_model">>,
   <<"autocomplete_place", "language">>, <<"autocomplete_place", "region">>,
   <<"text_search", "language">>, <<"text_search", "region">>}
\* the defaulted parameters supplied with a value of their declared type
SuppliedDefaulted(n, a) ==
  {p \in DOMAIN apiTool(n).defaults :
     p \in DOMAIN a.v /\ a.v[p].t = ParamType(apiTool(n), p)}

\* C8 as stated: a value v of the declared type supplied for an optional
\* parameter with a default is carried by the request in place of the default
\* (the request's parameters being those it carries ahead of `key`).
C8_SuppliedValueCarried ==
  Issuing => LET sent == SentParams
            IN \A p \in SuppliedDefaulted(inv.tool, inv.args) :
                 ValuesFor(sent, p) = <<Text(ToString(inv.args.v[p]))>>
\* C8 amended: the request never carries the default of a parameter that
\* was supplied with a value v of the declared type: it carries v, except that
\* a falsy v (the empty string) for a parameter appended only when truthy
\* (GuardedDefaults) leaves the parameter out of the request.
C8_SuppliedValueCarriedUnlessGuardedFalsy ==
  Issuing => LET sent == SentParams
            IN \A p \in SuppliedDefaulted(inv.tool, inv.args) :
                 ValuesFor(sent, p) =
                   IF <<inv.tool, p>> \in GuardedDefaults /\ IsFalsy(inv.args.v[p])
                   THEN <<>>
                   ELSE <<Text(ToString(inv.args.v[p]))>>
C8_Witness ==
  /\ Issuing
  /\ inv.tool = "get_hourly_weather"
  /\ "pageSize" \in DOMAIN inv.args.v
  /\ inv.args.v["pageSize"] = Num(0)
  /\ ValuesFor(SentParams, "pageSize") = <<"0">>

\* C9: an optional parameter without a default is in the request (among
\* the parameters it carries ahead of `key`) if and only if the supplied value
\* is truthy, and then once, with that value; absent, null, "", 0 and false
\* leave it out.
C9_NoDefaultIffTruthy ==
  Issuing => LET sent == SentParams
                tool == apiTool(inv.tool)
            IN \A p \in OptionalNames(tool) \ DOMAIN tool.defaults :
                 ValuesFor(sent, p) =
                   IF IsFalsy(Get(inv.args, p)) THEN <<>>
                   ELSE <<Text(ToString(Get(inv.args, p)))>>
C9_Witness ==
  /\ Issuing
  /\ inv.tool = "autocomplete_place"
  /\ "offset" \in DOMAIN inv.args.v
  /\ inv.args.v["offset"] = Num(0)
  /\ ValuesFor(SentParams, "offset") = <<>>

\* the values on which an executor calls toString, and the invocations in
\* which that call (or the parameter pattern) raises before fetch is reached
ToStringReceivers(n) ==
  CASE n = "get_time_zone" -> {"timestamp"}
    [] n = "snap_to_roads" -> {"interpolate"}
    [] n = "forecast_days" -> {"pageSize", "days"}
    [] n = "forecast_hours" -> {"pageSize", "days"}
    [] n = "get_hourly_weather" -> {"pageSize", "hours"}
    [] OTHER -> {}
RaisesLocally(n, a) ==
  \/ a.t \in {"undefined", "null"}
  \/ \E p \in ToStringReceivers(n) :
       \/ Get(a, p).t = "null"
       \/ Get(a, p).t = "undefined" /\ p = "timestamp"

\* C10 as stated: every invocation that returns has made exactly one
\* outbound request.
C10_ExactlyOneRequest == Terminal => inv.fetches = 1
\* C10 amended: an invocation never makes more than one outbound request,
\* and makes exactly one unless a local exception is raised before fetch is
\* reached (the parameter pattern on an absent arguments object, or toString
\* on an absent or null value), in which case it makes none.
C10_OneRequestUnlessLocalException ==
  inv.status # "Idle"
    => /\ inv.fetches <= 1
       /\ inv.fetches = 0 <=> RaisesLocally(inv.tool, inv.args)
C10_Witness ==
  /\ inv.status = "Failure"
  /\ inv.tool = "get_time_zone"
  /\ inv.args.t = "object"
  /\ "timestamp" \notin DOMAIN inv.args.v
  /\ inv.fetches = 0

\* C11: every issued request carries the configured API key as the query
\* parameter `key`, and `key` is the final parameter of the query, whatever
\* the key's value (unset included, which is sent as the text "undefined").
\* Violated: forecast_hours appends `key` only when the key is truthy, and
\* the tools that concatenate the key unencoded end the query with whatever
\* follows the key's last "&".
C11_KeyIsFinalParameter ==
  Issuing => LET q == ParseQuery(inv.request.url)
            IN q[Len(q)] = <<"key", Text(ToString(env))>>

\* C12: get_time_zone called with a location L and a timestamp T issues a
\* GET to the path /maps/api/timezone/json whose query is exactly location=L
\* (form-encoded, "," as %2C), then timestamp=T in decimal, then key=KEY; for
\* L = "39.6034810,-119.6822510" and T = 1331161200 the query text is
\* location=39.6034810%2C-119.6822510&timestamp=1331161200&key=KEY.
C12_TimeZoneRequest ==
  (Issuing /\ inv.tool = "get_time_zone"
     /\ Get(inv.args, "location").t = "string"
     /\ Get(inv.args, "timestamp").t = "number")
    => LET L == Get(inv.args, "location")
           T == Get(inv.args, "timestamp")
       IN /\ inv.request.method = "GET"
          /\ Before(inv.request.url, "?")
               = <<"https://www.googleapis.com/maps/api/timezone/json">>
          /\ ParseQuery(inv.request.url)
               = << <<"location", Text(L.v)>>, <<"timestamp", Text(Decimal(T.v))>>,
                    <<"key", Text(ToString(env))>> >>
          /\ (L = Str(<<"39.6034810", ",", "-119.6822510">>) /\ T = Num(1331161200))
               => Text(After(inv.request.url, "?"))
                    = "location=39.6034810%2C-119.6822510&timestamp=1331161200&key="
                      \o Text(Encode(ToString(env)))
C12_Witness ==
  /\ Issuing
  /\ inv.tool = "get_time_zone"
  /\ env = Str(<<"AIzaK1">>)
  /\ Text(inv.request.url)
       = "https://www.googleapis.com/maps/api/timezone/json"
         \o "?location=39.6034810%2C-119.6822510&timestamp=1331161200&key=AIzaK1"

\* the result an invocation's own outcome calls for: the settled response
\* (or the value fetch rejected with) and the tool's message prefix
OwnResult(i) ==
  LET prefix == apiTool(i.tool).prefix
  IN IF i.response = NoResponse
     THEN ErrorResult(prefix \o (IF i.thrown.kind = "Error" THEN i.thrown.message
                                 ELSE Stringify(i.thrown.value)))
     ELSE IF i.response.body.kind = "json"
          THEN IF SuccessStatus(i.response) THEN i.response.body.json
               ELSE ErrorResult(prefix \o Stringify(i.response.body.json))
          ELSE ErrorResult(prefix \o i.thrown.message)
Finished(i) == i.status \in {"Success", "Failure"}

\* C13: two invocations of the same tool with identical arguments each issue
\* their own upstream request, the two URLs are identical, and each result is
\* derived from that invocation's own response, even when the responses
\* differ: nothing is memoized.
C13_NoMemoization ==
  \A c \in Callers : \A d \in Callers \ {c} :
    (/\ calls[c].status # "Idle" /\ calls[d].status # "Idle"
     /\ calls[c].tool = calls[d].tool /\ calls[c].args = calls[d].args
     /\ calls[c].apiKey = calls[d].apiKey
     /\ ~RaisesLocally(calls[c].tool, calls[c].args))
      => /\ calls[c].fetches = 1 /\ calls[d].fetches = 1
         /\ calls[c].request.url = calls[d].request.url
         /\ Finished(calls[c]) => calls[c].result = OwnResult(calls[c])
C13_Witness ==
  /\ calls[1].tool = "get_place_details" /\ calls[2].tool = "get_place_details"
  /\ calls[1].args = calls[2].args
  /\ calls[1].request.url = calls[2].request.url
  /\ calls[1].fetches = 1 /\ calls[2].fetches = 1
  /\ calls[1].status = "Success" /\ calls[1].response.status = 200
  /\ calls[2].status = "Failure" /\ calls[2].response.status = 503
  /\ calls[1].result # calls[2].result

\* an invocation replayed on its own: its call with its arguments and the
\* key it read, then the settlements it received, with no other invocation
\* present
Alone(i) ==
  LET started == executeFunction(i.tool, i.args, i.apiKey)
  IN IF started.status # "AwaitingResponse" \/ i.status = "AwaitingResponse"
     THEN started
     ELSE IF i.response = NoResponse THEN fetchRejected(started, i.thrown)
          ELSE IF i.status = "AwaitingBody" THEN fetchResolved(started, i.response)
               ELSE IF i.response.body.kind = "json"
                    THEN jsonResolved(fetchResolved(started, i.response))
                    ELSE jsonRejected(fetchResolved(started, i.response))

\* C14: in every interleaving of the in-flight invocations, of the same tool
\* or of different tools, each invocation's request and result are those it
\* would have on its own: they depend on its arguments, the key it read and
\* the response (or rejection) it received, and on nothing another invocation
\* did, whether that one is suspended, finished or not started.
C14_InvocationsIndependent ==
  \A c \in Callers :
    calls[c].status # "Idle"
      => LET alone == Alone(calls[c])
         IN /\ calls[c].request = alone.request
            /\ calls[c].status = alone.status
            /\ calls[c].result = alone.result
C14_Witness ==
  /\ calls[1].tool = "text_search" /\ calls[1].status = "AwaitingResponse"
  /\ calls[2].tool = "forecast_hours" /\ calls[2].status = "Failure"
  /\ calls[2].response.status = 503
  /\ calls[1].request = executeFunction("text_search", calls[1].args, env).request
  /\ calls[2].result = OwnResult(calls[2])

\* an optional parameter's value once its default, if any, is applied
AfterDefault(n, a, p) ==
  IF p \in DOMAIN apiTool(n).defaults
  THEN (IF Get(a, p).t = "undefined" THEN apiTool(n).defaults[p] ELSE Get(a, p))
  ELSE Get(a, p)
\* the optional parameters the executor appends under `if (p)`
Guarded(n, p) == p \notin DOMAIN apiTool(n).defaults \/ <<n, p>> \in GuardedDefaults

Omitted(n, a) == {p \in RequiredNames(apiTool(n)) : p \notin DOMAIN a.v}
\* an invocation that leaves out a required parameter and passes null nowhere
OmitsRequired ==
  /\ inv.status # "Idle"
  /\ inv.args.t = "object"
  /\ Omitted(inv.tool, inv.args) # {}
  /\ \A p \in DOMAIN inv.args.v : inv.args.v[p].t # "null"

\* C16 as stated: for every tool and every required parameter, an invocation
\* that omits the parameter raises no local error and sends its request.
C16_OmissionNeverLocalError ==
  OmitsRequired => (inv.fetches = 1 /\ inv.thrown \notin {CannotRead(Undefined, "toString")})
\* C16 amended: no tool validates its required parameters; an invocation
\* that omits one sends its request with the text "undefined" for it, except
\* get_time_zone without `timestamp`: the executor calls timestamp.toString(),
\* which raises a TypeError that is returned as { error }, and no request is
\* sent.
C16_OmissionSentUnlessTimestamp ==
  OmitsRequired =>
    IF inv.tool = "get_time_zone" /\ "timestamp" \in Omitted(inv.tool, inv.args)
    THEN /\ inv.status = "Failure"
         /\ inv.fetches = 0
         /\ inv.result = ErrorResult("An error occurred while fetching time zone information: "
                           \o "Cannot read properties of undefined (reading 'toString')")
    ELSE /\ inv.fetches = 1
         /\ Issuing => LET sent == SentParams
                       IN \A p \in Omitted(inv.tool, inv.args) :
                            ValuesFor(sent, WireName(p)) = <<"undefined">>
C16_Witness ==
  /\ Issuing
  /\ inv.tool = "find_place_from_text"
  /\ inv.args = Obj(<<>>)
  /\ ValuesFor(SentParams, "input") = <<"undefined">>
  /\ ValuesFor(SentParams, "inputtype") = <<"undefined">>

\* C17: when the API key is not configured (unset or empty) no tool
\* reports a local error on that account or refuses to run: the invocation
\* still builds and sends its one request, whose `key` is the text
\* "undefined" (or empty) or, for forecast_hours, missing, and its result
\* comes from the settlement of that request by the normal path.
C17_AbsentKeyStillSends ==
  (inv.status # "Idle" /\ env \in {Undefined, Str(<<>>)}
     /\ ~RaisesLocally(inv.tool, inv.args))
    => /\ inv.fetches = 1
       /\ inv.request.method = "GET"
       /\ Issuing => ValuesFor(ParseQuery(inv.request.url), "key")
                       = IF inv.tool = "forecast_hours" THEN <<>>
                         ELSE <<Text(ToString(env))>>
       /\ Finished(inv) => inv.result = OwnResult(inv)
C17_Witness ==
  /\ env = Undefined
  /\ inv.status = "Success"
  /\ inv.tool = "nearest_roads"
  /\ inv.fetches = 1
  /\ ValuesFor(ParseQuery(inv.request.url), "key") = <<"undefined">>
  /\ inv.result = inv.response.body.json

\* the specification's "Awaiting response" spans the executor's two awaits:
\* on fetch and on response.json()
Awaiting(i) == i.status \in {"AwaitingResponse", "AwaitingBody"}

\* C18 as stated: an invocation enters a terminal state (Success or
\* Failure) only from Awaiting response, and makes no transition once it is
\* in a terminal state.
C18_TerminalOnlyFromAwaiting ==
  [][ /\ (~Finished(inv) /\ Finished(inv')) => Awaiting(inv)
      /\ ~Finished(inv) ]_vars
\* C18 amended: a called invocation builds its request and then either
\* awaits the response, having issued its one request, and from there enters
\* exactly one terminal state, or enters Failure directly from building, with
\* no request issued, when building raises a local exception; with no
\* arguments object the call rejects instead.  Success is entered only from
\* Awaiting response, and an invocation that has ended makes no further
\* transition and issues no further request.
C18_TerminalFromAwaitingOrBuilding ==
  [][ /\ inv.status = "Idle"
           => \/ inv'.status = "AwaitingResponse" /\ inv'.fetches = 1
              \/ /\ inv'.status = "Failure" /\ inv'.fetches = 0
                 /\ inv'.args.t = "object" /\ RaisesLocally(inv'.tool, inv'.args)
              \/ inv'.status = "Rejected" /\ inv'.args.t \in {"undefined", "null"}
      /\ inv.status = "AwaitingResponse"
           => inv'.status \in {"AwaitingBody", "Failure"} /\ inv'.fetches = 1
      /\ inv.status = "AwaitingBody"
           => inv'.status \in {"Success", "Failure"} /\ inv'.fetches = 1
      /\ inv.status \notin {"Success", "Failure", "Rejected"} ]_vars
C18_Witness ==
  /\ inv.status = "Failure"
  /\ inv.tool = "snap_to_roads"
  /\ inv.args.t = "object"
  /\ Get(inv.args, "interpolate") = Null
  /\ inv.fetches = 0
  /\ inv.request = NoRequest

\* C19: a response whose body cannot be parsed as JSON ends in an error
\* result whose message is the tool's prefix followed by the parse
\* exception's message, for a success status and for a non-success status
\* alike: in the non-success case nothing of the HTTP status is in the message.
C19_UnparseableBodyIsParseError ==
  (Finished(inv) /\ inv.response.body.kind = "unparseable")
    => /\ inv.status = "Failure"
       /\ inv.thrown.name = "SyntaxError"
       /\ inv.result = ErrorResult(apiTool(inv.tool).prefix
                                   \o "Unexpected end of JSON input")
C19_Witness ==
  /\ inv.status = "Failure"
  /\ inv.tool = "get_hourly_weather"
  /\ inv.response = [status |-> 503, body |-> Unparseable]
  /\ inv.result = ErrorResult("An error occurred while retrieving weather data: "
                              \o "Unexpected end of JSON input")

\* the four weather tools
WeatherTools ==
  {"forecast_days", "forecast_hours", "get_hourly_weather", "current_conditions"}

\* C20: every request is a GET with exactly one header, Content-Type:
\* application/json for the four weather tools and Accept: application/json
\* for every other tool, whatever the arguments.
C20_MethodAndHeader ==
  Issued => /\ inv.request.method = "GET"
            /\ inv.request.headers =
                 << <<(IF inv.tool \in WeatherTools THEN "Content-Type" ELSE "Accept"),
                      "application/json">> >>
C20_Witness ==
  /\ Issuing
  /\ inv.tool = "forecast_days"
  /\ "languageCode" \in DOMAIN inv.args.v
  /\ inv.request.method = "GET"
  /\ inv.request.headers = << <<"Content-Type", "application/json">> >>

\* C21: an invocation reads the configured key once, in its call and before
\* it suspends: the key it holds and sends is the one configured at the
\* moment of the call, a change of the configured key while it is in flight
\* alters neither its request nor its result, and an invocation called after
\* the change holds the new key.
C21_KeyReadOnceAtCall ==
  [][ \A c \in Callers :
        /\ (calls[c].status = "Idle" /\ calls'[c].status # "Idle")
             => /\ calls'[c].apiKey = env
                /\ calls'[c].request = Request(apiTool(calls'[c].tool),
                                               calls'[c].searchParams, env)
        /\ calls[c].status # "Idle"
             => /\ calls'[c].apiKey = calls[c].apiKey
                /\ calls'[c].request = calls[c].request
                /\ env' # env => calls'[c] = calls[c]
                /\ Finished(calls'[c]) => calls'[c].result = OwnResult(calls'[c]) ]_vars
C21_Witness ==
  /\ env = Str(<<"AIzaK1">>)
  /\ calls[1].tool = "forecast_days" /\ calls[2].tool = "forecast_days"
  /\ calls[1].status = "Success" /\ calls[2].status = "AwaitingResponse"
  /\ calls[1].apiKey = Undefined /\ calls[2].apiKey = Str(<<"AIzaK1">>)
  /\ ValuesFor(ParseQuery(calls[1].request.url), "key") = <<"undefined">>
  /\ ValuesFor(ParseQuery(calls[2].request.url), "key") = <<"AIzaK1">>

\* C22: provided the transport settles the network call and the body read,
\* every invocation that is awaiting eventually returns a result (Success or
\* Failure); and since the executor has no timeout and no cancellation, an
\* awaiting invocation changes only by such a settlement: if none comes it
\* stays awaiting.
C22_ReturnsIfTransportSettles ==
  /\ Awaiting(inv) ~> Finished(inv)
  /\ [][ /\ inv.status = "AwaitingResponse"
              => \/ inv'.status = "AwaitingBody" /\ inv'.response \in Responses
                 \/ inv'.status = "Failure" /\ inv'.thrown \in Rejections
         /\ inv.status = "AwaitingBody"
              => /\ Finished(inv')
                 /\ inv'.response = inv.response ]_vars
C22_Witness ==
  /\ inv.tool = "nearby_search"
  /\ inv.status = "Failure"
  /\ inv.fetches = 1
  /\ inv.response = [status |-> 503, body |-> Aborted]
  /\ inv.thrown = Error("TypeError", "terminated")

\* C23: no step of any invocation, on any outcome path, changes a tool
\* descriptor (name, declared properties, required list), the arguments
\* object the caller passed, or the configured key.
C23_NothingMutated ==
  [][ /\ heap'.apiTools = heap.apiTools
      /\ heap'.apiTools = definitions
      /\ env' = env
      /\ inv'.status # "Idle" => inv'.args = heap'.passed ]_vars
C23_Witness ==
  /\ inv.status = "Failure"
  /\ inv.tool = "nearest_roads"
  /\ inv.response.status = 400
  /\ inv.args = Obj([points |-> SampleString])
  /\ heap.passed = inv.args
  /\ heap.apiTools[9].name = "nearest_roads"
  /\ heap.apiTools[9].required = <<"points">>

\* building the request raises: toString is called on an absent timestamp
\* or on a null timestamp, pageSize, days, hours or interpolate
BuildingRaises(n, a) ==
  /\ a.t = "object"
  /\ \E p \in ToStringReceivers(n) :
       \/ Get(a, p).t = "null"
       \/ Get(a, p).t = "undefined" /\ p \notin DOMAIN apiTool(n).defaults

\* C24: an invocation makes at most one outbound request; it makes none
\* exactly when building the request raises a local exception, and then its
\* result is an { error } object produced without any network call.
\* Violated: called with no arguments object, an invocation makes no request
\* although building never started, and it rejects instead of returning
\* { error }.
C24_NoRequestIffBuildingRaises ==
  inv.status # "Idle"
    => /\ inv.fetches <= 1
       /\ inv.fetches = 0 <=> BuildingRaises(inv.tool, inv.args)
       /\ inv.fetches = 0
            => /\ inv.status = "Failure"
               /\ IsErrorResult(inv.result)
               /\ inv.request = NoRequest

\* the parameters the executor appended to the query other than `key`
AppendedParams(i) == SelectSeq(i.searchParams, LAMBDA e : e[1] # "key")

\* C25: for every tool and every configured (non-empty) key string,
\* whatever characters it holds, the request's `key` parameter decodes to
\* exactly the configured key, and the key neither adds a parameter to the
\* query nor removes one.
\* Violated: forecast_days, get_hourly_weather and current_conditions
\* concatenate the key unencoded, so the key "k&x=1" is received as key=k
\* followed by a parameter x=1.
C25_KeyDecodesToConfiguredKey ==
  (Issuing /\ env.t = "string" /\ Truthy(env))
    => LET q == ParseQuery(inv.request.url)
       IN /\ ValuesFor(q, "key") = <<Text(env.v)>>
          /\ Len(q) = Len(AppendedParams(inv)) + 1

\* what an executor does with its parameters, read off its statements: the
\* parameters it appends, in order, and those it appends unconditionally
Appends(tool) ==
  LET ss == SelectSeq(tool.steps, LAMBDA st : st[1] \in {"append", "if", "toString"})
  IN [k \in 1..Len(ss) |-> ss[k][3]]
AppendsAlways(tool) ==
  {tool.steps[k][3] : k \in {j \in 1..Len(tool.steps) :
                               tool.steps[j][1] \in {"append", "toString"}}}
Names(seq) == {seq[k] : k \in 1..Len(seq)}
Declared(d) == [k \in 1..Len(d.properties) |-> d.properties[k][1]]

NamesDistinct ==
  \A i \in 1..Len(heap.apiTools) : \A j \in 1..Len(heap.apiTools) :
    i # j => heap.apiTools[i].name # heap.apiTools[j].name
RequiredAgrees(i) ==
  Names(heap.apiTools[i].required)
    = AppendsAlways(functions[i]) \ DOMAIN functions[i].defaults
PropertiesAgree(i) ==
  /\ Names(Declared(heap.apiTools[i])) = ParamNames(functions[i])
  /\ Names(Declared(heap.apiTools[i])) = Names(Appends(functions[i]))
OrderAgrees(i) == Appends(functions[i]) = Declared(heap.apiTools[i])

\* C26: the descriptors' names are pairwise distinct, and every descriptor
\* agrees with its executor: its required list is exactly the parameters the
\* executor appends unconditionally and without a default, its declared
\* properties are exactly the parameters the executor consumes, and the
\* executor appends the parameters in the descriptor's declaration order.
\* The descriptors are those in place before a call; no call changes them.
C26_DescriptorsAgree ==
  inv.status = "Idle"
    => /\ NamesDistinct
       /\ \A i \in 1..Len(heap.apiTools) :
            RequiredAgrees(i) /\ PropertiesAgree(i) /\ OrderAgrees(i)
C26_Witness ==
  /\ Issuing
  /\ inv.tool = "text_search"
  /\ DOMAIN inv.args.v = {"query", "radius"}
  /\ inv.args.v["radius"] = SampleNumber
  /\ heap.apiTools[6].name = "text_search"
  /\ heap.apiTools[6].required = <<"query">>
  /\ [k \in 1..Len(SentParams) |-> SentParams[k][1]]
       = <<"query", "radius", "language", "region">>

====
